---- MODULE Spec2Model ----
(***************************************************************************)
(* Model of gpx_analyzer.py: the GPX elevation-profile pipeline.           *)
(*                                                                         *)
(* Numbers.  Python floats are modelled by exact arithmetic:               *)
(*   - distances along the track are integers (metres);                    *)
(*   - a value produced by a division is a rational <<n, d>> with d > 0;   *)
(*   - a division by zero (Python's ZeroDivisionError) is the pair         *)
(*     <<0, 0>>, which every caller propagates.                            *)
(* Sequences are 1-based: Python's xs[i] is xs[i+1] here, xs[-1] is        *)
(* xs[Len(xs)].                                                            *)
(*                                                                         *)
(* Coordinates.  Track points and waypoints lie on the equator (lat = 0),  *)
(* as in the specification's end-to-end example, with the longitude given  *)
(* in grid units of 50/R radians, so that the haversine distance of two    *)
(* points is exactly 50 m per grid unit of longitude difference.           *)
(***************************************************************************)
EXTENDS Integers, Sequences, FiniteSets, TLC

VARIABLES pc, trkpts, wpts, stdout, plotted, dists, eles, segments, fills,
          positions, marks, call, ret

vars == <<pc, trkpts, wpts, stdout, plotted, dists, eles, segments, fills,
          positions, marks, call, ret>>

\* ---------------------------------------------------------------- bounds
MaxFileTrkpts == 2      \* most track points in a parsed file
MaxFileWpts == 1        \* most waypoints in a parsed file
MaxTrkpts == 3          \* longest track (function calls)
MaxWpts == 2            \* longest waypoint list (function calls)
MaxLon == 2             \* longitudes 0..MaxLon (grid units)
MaxStep == 2            \* largest step of a distance series (function calls)
MaxQuery == 5           \* largest queried distance (function calls)
MaxSegment == 6         \* largest segment length, in halves (function calls)
MaxSlope == 200         \* largest |slope|, in thousandths (function calls)

Elevations == {0, 10}
Names == {"A", "B"}

\* ------------------------------------------------------------- arithmetic
Abs(x) == IF x < 0 THEN -x ELSE x

Min(S) == CHOOSE x \in S : \A y \in S : x <= y

ZeroDivisionError == <<0, 0>>

\* a / b for integers a, b, as Python's true division
Div(a, b) ==
    IF b = 0 THEN ZeroDivisionError
    ELSE IF b < 0 THEN <<-a, -b>> ELSE <<a, b>>

RatEq(p, q) == p[1] * q[2] = q[1] * p[2]
RatLt(p, q) == p[1] * q[2] < q[1] * p[2]

\* --------------------------------------------------------------- haversine
R == 6371000
GridPerRadian == R \div 50

\* lines 9-19, for two points on the equator or on a common meridian, where
\* a = sin^2(d/2) and c = 2 atan2(sin(d/2), cos(d/2)) = d, the angle between them
haversine(lat1, lon1, lat2, lon2) ==
    CASE lat1 = 0 /\ lat2 = 0 -> (R * Abs(lon2 - lon1)) \div GridPerRadian
      [] lon1 = lon2          -> (R * Abs(lat2 - lat1)) \div GridPerRadian

\* --------------------------------------------------------- compute_distances
\* faulty variant: appends the step instead of the running total
RECURSIVE compute_distances_loop_step(_, _, _)
compute_distances_loop_step(pts, i, ds) ==
    IF i > Len(pts) THEN ds
    ELSE LET d == haversine(pts[i-1][1], pts[i-1][2], pts[i][1], pts[i][2])
         IN  compute_distances_loop_step(pts, i + 1, Append(ds, d))

RECURSIVE compute_distances_loop(_, _, _)
compute_distances_loop(pts, i, ds) ==
    IF i > Len(pts) THEN ds
    ELSE LET d == haversine(pts[i-1][1], pts[i-1][2], pts[i][1], pts[i][2])
         IN  compute_distances_loop(pts, i + 1, Append(ds, ds[Len(ds)] + d))

compute_distances(pts) == compute_distances_loop(pts, 2, <<0>>)

\* ----------------------------------------------------- interpolate_elevation
\* faulty variant: the ratio measured from the far end of the step
interpolate_elevation_reversed(distance, ds, es) ==
    LET hits == {i \in 2..Len(ds) : distance <= ds[i]}
    IN  IF hits = {} THEN <<es[Len(es)], 1>>
        ELSE LET i  == Min(hits)
                 d0 == ds[i-1]
                 d1 == ds[i]
                 e0 == es[i-1]
                 e1 == es[i]
                 ratio == Div(d1 - distance, d1 - d0)
             IN  IF d1 = d0 THEN <<e1, 1>>
                 ELSE IF ratio = ZeroDivisionError THEN ZeroDivisionError
                 ELSE <<e0 * ratio[2] + ratio[1] * (e1 - e0), ratio[2]>>

\* faulty variant: no test for a step of length zero
interpolate_elevation_unguarded(distance, ds, es) ==
    LET hits == {i \in 2..Len(ds) : distance <= ds[i]}
    IN  IF hits = {} THEN <<es[Len(es)], 1>>
        ELSE LET i  == Min(hits)
                 d0 == ds[i-1]
                 d1 == ds[i]
                 e0 == es[i-1]
                 e1 == es[i]
                 ratio == Div(distance - d0, d1 - d0)
             IN  IF ratio = ZeroDivisionError THEN ZeroDivisionError
                 ELSE <<e0 * ratio[2] + ratio[1] * (e1 - e0), ratio[2]>>

interpolate_elevation(distance, ds, es) ==
    LET hits == {i \in 2..Len(ds) : distance <= ds[i]}
    IN  IF hits = {} THEN <<es[Len(es)], 1>>
        ELSE LET i  == Min(hits)
                 d0 == ds[i-1]
                 d1 == ds[i]
                 e0 == es[i-1]
                 e1 == es[i]
                 ratio == Div(distance - d0, d1 - d0)
             IN  IF d1 = d0 THEN <<e1, 1>>
                 ELSE IF ratio = ZeroDivisionError THEN ZeroDivisionError
                 ELSE <<e0 * ratio[2] + ratio[1] * (e1 - e0), ratio[2]>>

\* ------------------------------------------------------------ slope_to_color
\* faulty variant: the 3 % threshold belongs to the lower category
slope_to_color_le(slope) ==
    LET pct == <<slope[1] * 100, slope[2]>>
    IN  IF RatLt(pct, <<0, 1>>) THEN "blue"
        ELSE IF ~RatLt(<<3, 1>>, pct) THEN "darkgreen"
        ELSE IF RatLt(pct, <<6, 1>>) THEN "limegreen"
        ELSE IF RatLt(pct, <<10, 1>>) THEN "yellow"
        ELSE IF RatLt(pct, <<15, 1>>) THEN "orange"
        ELSE "red"

slope_to_color(slope) ==
    LET pct == <<slope[1] * 100, slope[2]>>
    IN  IF RatLt(pct, <<0, 1>>) THEN "blue"
        ELSE IF RatLt(pct, <<3, 1>>) THEN "darkgreen"
        ELSE IF RatLt(pct, <<6, 1>>) THEN "limegreen"
        ELSE IF RatLt(pct, <<10, 1>>) THEN "yellow"
        ELSE IF RatLt(pct, <<15, 1>>) THEN "orange"
        ELSE "red"

\* ------------------------------------------------------------ segment_slopes
\* range(start, stop, step) for step > 0
range(start, stop, step) ==
    [j \in 1..(IF stop > start THEN (stop - start + step - 1) \div step ELSE 0)
        |-> start + (j - 1) * step]

\* int(x) and total // x for a rational x > 0 and an integer total >= 0
int(x) == x[1] \div x[2]
FloorDiv(total, x) == (total * x[2]) \div x[1]

\* faulty variant: the total is appended also when it is the last boundary
segment_boundaries_le(ds, segment) ==
    LET total == ds[Len(ds)]
        boundaries == range(0, FloorDiv(total, segment) * int(segment)
                                 + int(segment) + 1, int(segment))
    IN  IF boundaries[Len(boundaries)] <= total
        THEN Append(boundaries, total)
        ELSE boundaries

\* lines 88-91
segment_boundaries(ds, segment) ==
    LET total == ds[Len(ds)]
        boundaries == range(0, FloorDiv(total, segment) * int(segment)
                                 + int(segment) + 1, int(segment))
    IN  IF boundaries[Len(boundaries)] < total
        THEN Append(boundaries, total)
        ELSE boundaries

\* line 100; end_e and start_e are rationals, seg_dist an integer
segment_slope(start_e, end_e, seg_dist) ==
    IF seg_dist # 0
    THEN Div(end_e[1] * start_e[2] - start_e[1] * end_e[2],
             end_e[2] * start_e[2] * seg_dist)
    ELSE <<0, 1>>

\* lines 93-102.  An iteration that raises ZeroDivisionError is a segment
\* whose slope is ZeroDivisionError (see Raised).
segment_slopes(ds, es, segment) ==
    LET boundaries == segment_boundaries(ds, segment)
    IN  [i \in 1..(Len(boundaries) - 1) |->
            LET start_d == boundaries[i]
                end_d   == boundaries[i+1]
                start_e == interpolate_elevation(start_d, ds, es)
                end_e   == interpolate_elevation(end_d, ds, es)
                seg_dist == end_d - start_d
            IN  IF start_e = ZeroDivisionError \/ end_e = ZeroDivisionError
                THEN <<start_d, end_d, ZeroDivisionError>>
                ELSE <<start_d, end_d, segment_slope(start_e, end_e, seg_dist)>>]

Raised(segs) == \E i \in 1..Len(segs) : segs[i][3] = ZeroDivisionError

DefaultSegment == <<100, 1>>

\* -------------------------------------------------------- waypoint_positions
Inf == -1

\* faulty variant: a later track point at the same distance replaces the earlier one
RECURSIVE nearest_le(_, _, _, _, _, _)
nearest_le(lat, lon, pts, i, min_idx, min_dist) ==
    IF i > Len(pts) THEN min_idx
    ELSE LET d == haversine(lat, lon, pts[i][1], pts[i][2])
         IN  IF min_dist = Inf \/ d <= min_dist
             THEN nearest_le(lat, lon, pts, i + 1, i, d)
             ELSE nearest_le(lat, lon, pts, i + 1, min_idx, min_dist)

\* lines 109-115: the scan from track point i on
RECURSIVE nearest(_, _, _, _, _, _)
nearest(lat, lon, pts, i, min_idx, min_dist) ==
    IF i > Len(pts) THEN min_idx
    ELSE LET d == haversine(lat, lon, pts[i][1], pts[i][2])
         IN  IF min_dist = Inf \/ d < min_dist
             THEN nearest(lat, lon, pts, i + 1, i, d)
             ELSE nearest(lat, lon, pts, i + 1, min_idx, min_dist)

\* faulty variant: the scan starts from a minimum of 0 instead of infinity
waypoint_positions_min0(ws, pts, ds) ==
    [w \in 1..Len(ws) |->
        <<ds[nearest(ws[w][1], ws[w][2], pts, 1, 1, 0)], ws[w][3]>>]

waypoint_positions(ws, pts, ds) ==
    [w \in 1..Len(ws) |->
        <<ds[nearest(ws[w][1], ws[w][2], pts, 1, 1, Inf)], ws[w][3]>>]

\* -------------------------------------------------------------- plot_profile
\* lines 132-142: the polygon and colour of one segment
fill_of(seg, ds, es) ==
    LET start_d == seg[1]
        end_d   == seg[2]
        inside  == SelectSeq([i \in 1..Len(ds) |-> i],
                             LAMBDA i : start_d < ds[i] /\ ds[i] < end_d)
    IN  [seg_d |-> <<start_d>> \o [k \in 1..Len(inside) |-> ds[inside[k]]]
                     \o <<end_d>>,
         seg_e |-> <<interpolate_elevation(start_d, ds, es)>>
                     \o [k \in 1..Len(inside) |-> <<es[inside[k]], 1>>]
                     \o <<interpolate_elevation(end_d, ds, es)>>,
         color |-> slope_to_color(seg[3])]

\* lines 146-149: the marker of one waypoint position
mark_of(pos, ds, es) ==
    [dist_pos |-> pos[1], ele |-> interpolate_elevation(pos[1], ds, es),
     name |-> pos[2]]

\* ------------------------------------------------------------------- inputs
SeqsUpTo(S, n) == UNION {[1..k -> S] : k \in 0..n}

TrackPoints == {<<0, lon, ele>> : lon \in 0..MaxLon, ele \in Elevations}
WayPoints == {<<0, lon, name>> : lon \in 0..MaxLon, name \in Names}

Init ==
    /\ pc = "main"
    /\ trkpts = <<>>
    /\ wpts = <<>>
    /\ stdout = <<>>
    /\ plotted = <<>>
    /\ dists = <<>>
    /\ eles = <<>>
    /\ segments = <<>>
    /\ fills = <<>>
    /\ positions = <<>>
    /\ marks = <<>>
    /\ call = [fn |-> "none"]
    /\ ret = <<>>

\* ---------------------------------------------------------------------- main
\* line 163: parse_gpx returns the track points and the waypoints of the file
ParseGpx ==
    /\ pc = "main"
    /\ \E t \in SeqsUpTo(TrackPoints, MaxFileTrkpts),
          w \in SeqsUpTo(WayPoints, MaxFileWpts) :
          /\ trkpts' = t
          /\ wpts' = w
    /\ pc' = "parsed"
    /\ UNCHANGED <<stdout, plotted, dists, eles, segments, fills, positions,
                   marks, call, ret>>

\* faulty variant: the message is printed but main does not return, and plot_profile
\* fails on the empty elevation list
MainNoTrackPoints_noreturn ==
    /\ pc = "parsed"
    /\ trkpts = <<>>
    /\ stdout' = Append(stdout, "No track points found.")
    /\ plotted' = Append(plotted, <<trkpts, wpts>>)
    /\ pc' = "IndexError"
    /\ UNCHANGED <<trkpts, wpts, dists, eles, segments, fills,
                   positions, marks, call, ret>>

\* lines 164-166
MainNoTrackPoints ==
    /\ pc = "parsed"
    /\ trkpts = <<>>
    /\ stdout' = Append(stdout, "No track points found.")
    /\ pc' = "exit"
    /\ UNCHANGED <<trkpts, wpts, plotted, dists, eles, segments, fills,
                   positions, marks, call, ret>>

\* line 167 and the body of plot_profile, lines 121-155
MainPlotProfile ==
    /\ pc = "parsed"
    /\ trkpts # <<>>
    /\ plotted' = Append(plotted, <<trkpts, wpts>>)
    /\ LET ds   == compute_distances(trkpts)
           es   == [i \in 1..Len(trkpts) |-> trkpts[i][3]]
           segs == segment_slopes(ds, es, DefaultSegment)
           pos  == waypoint_positions(wpts, trkpts, ds)
       IN  /\ dists' = ds
           /\ eles' = es
           /\ segments' = segs
           /\ IF Raised(segs)
              THEN /\ pc' = "ZeroDivisionError"
                   /\ UNCHANGED <<fills, positions, marks>>
              ELSE /\ fills' = [k \in 1..Len(segs) |-> fill_of(segs[k], ds, es)]
                   /\ positions' = pos
                   /\ marks' = [k \in 1..Len(pos) |-> mark_of(pos[k], ds, es)]
                   /\ pc' = "exit"
    /\ UNCHANGED <<trkpts, wpts, stdout, call, ret>>

Next ==
    \/ ParseGpx
    \/ MainNoTrackPoints
    \/ MainPlotProfile

Spec == Init /\ [][Next]_vars

\* ------------------------------------------------- the functions on their own
\* Each function applied once to arguments drawn from its domain: distance
\* series that start at 0 and do not decrease, with index-aligned elevations.
RECURSIVE Sum(_, _)
Sum(steps, n) == IF n = 0 THEN 0 ELSE Sum(steps, n - 1) + steps[n]

DistanceSeries ==
    {[i \in 1..(Len(steps) + 1) |-> Sum(steps, i - 1)] :
        steps \in SeqsUpTo(0..MaxStep, MaxTrkpts - 1)}

SegmentLengths == {<<n, 2>> : n \in 2..MaxSegment} \cup {DefaultSegment}

Slopes == {<<n, 1000>> : n \in (0 - MaxSlope)..MaxSlope}

InitFn ==
    /\ pc = "call"
    /\ trkpts = <<>>
    /\ wpts = <<>>
    /\ stdout = <<>>
    /\ plotted = <<>>
    /\ dists = <<>>
    /\ eles = <<>>
    /\ segments = <<>>
    /\ fills = <<>>
    /\ positions = <<>>
    /\ marks = <<>>
    /\ call = [fn |-> "none"]
    /\ ret = <<>>

program == <<trkpts, wpts, stdout, plotted, dists, eles, segments, fills,
             positions, marks>>

CallComputeDistances ==
    /\ pc = "call"
    /\ \E pts \in SeqsUpTo(TrackPoints, MaxTrkpts) \ {<<>>} :
          /\ call' = [fn |-> "compute_distances", trkpts |-> pts]
          /\ ret' = compute_distances(pts)
    /\ pc' = "return"
    /\ UNCHANGED program

\* waypoint_positions does not read the elevation of a track point (line 111)
CallWaypointPositions ==
    /\ pc = "call"
    /\ \E pts \in SeqsUpTo({<<0, lon, 0>> : lon \in 0..MaxLon}, MaxTrkpts) \ {<<>>},
          ws \in SeqsUpTo(WayPoints, MaxWpts) :
          /\ call' = [fn |-> "waypoint_positions", wpts |-> ws, trkpts |-> pts,
                      dists |-> compute_distances(pts)]
          /\ ret' = waypoint_positions(ws, pts, compute_distances(pts))
    /\ pc' = "return"
    /\ UNCHANGED program

CallInterpolateElevation ==
    /\ pc = "call"
    /\ \E ds \in DistanceSeries, distance \in 0..MaxQuery :
          \E es \in [1..Len(ds) -> Elevations] :
             /\ call' = [fn |-> "interpolate_elevation", distance |-> distance,
                         dists |-> ds, eles |-> es]
             /\ ret' = interpolate_elevation(distance, ds, es)
    /\ pc' = "return"
    /\ UNCHANGED program

CallSegmentSlopes ==
    /\ pc = "call"
    /\ \E ds \in DistanceSeries, segment \in SegmentLengths :
          \E es \in [1..Len(ds) -> Elevations] :
             /\ call' = [fn |-> "segment_slopes", dists |-> ds, eles |-> es,
                         segment |-> segment]
             /\ ret' = segment_slopes(ds, es, segment)
    /\ pc' = "return"
    /\ UNCHANGED program

CallSlopeToColor ==
    /\ pc = "call"
    /\ \E slope \in Slopes :
          /\ call' = [fn |-> "slope_to_color", slope |-> slope]
          /\ ret' = slope_to_color(slope)
    /\ pc' = "return"
    /\ UNCHANGED program

NextFn ==
    \/ CallComputeDistances
    \/ CallInterpolateElevation
    \/ CallSegmentSlopes
    \/ CallSlopeToColor
    \/ CallWaypointPositions

SpecFn == InitFn /\ [][NextFn]_vars

\* ------------------------------------------------------------------- claims
Plotted == pc = "exit" /\ plotted # <<>>

Total == dists[Len(dists)]

\* C1: with the default segment length of 100 the last segment returned by
\* segment_slopes ends exactly at the total distance, and no segment extends
\* past it.
C1_LastSegmentEndsAtTotal ==
    Plotted =>
        /\ segments[Len(segments)][2] = Total
        /\ \A k \in 1..Len(segments) : segments[k][2] <= Total

\* ceil(total / x) for a rational x > 0
Ceil(total, x) == (total * x[2] + x[1] - 1) \div x[1]

\* C2: segment_slopes returns exactly ceil(T / L) segments, T the total
\* distance and L the segment length.
C2_SegmentCount ==
    call.fn = "segment_slopes" =>
        Len(ret) = Ceil(call.dists[Len(call.dists)], call.segment)

\* C3, as stated: for every index i, interpolate_elevation(dists[i], dists,
\* eles) returns eles[i], repeated distances included.
C3_RoundTripEveryIndex ==
    call.fn = "interpolate_elevation" =>
        \A i \in 1..Len(call.dists) :
            call.distance = call.dists[i] => RatEq(ret, <<call.eles[i], 1>>)

\* The index whose elevation the scan of interpolate_elevation reaches for
\* the distance dists[i]: the scan starts at the second point and stops at the
\* first point at least that far, and it blends back to the first point only
\* over a step that is not of length zero.
FirstIndex(ds, i) ==
    IF i = 1
    THEN IF Len(ds) > 1 /\ ds[2] = ds[1] THEN 2 ELSE 1
    ELSE Min({j \in 2..Len(ds) : ds[j] = ds[i]})

\* C3, amended: interpolate_elevation(dists[i], dists, eles) returns the
\* elevation of the first index, after the first point, that has the distance
\* dists[i]; so it returns eles[i] for every i whose distance no earlier index
\* shares (the second point apart, which the scan visits first), and eles[0]
\* for i = 0 unless the second point is at distance 0 too.
C3_RoundTripFirstIndex ==
    call.fn = "interpolate_elevation" =>
        \A i \in 1..Len(call.dists) :
            call.distance = call.dists[i] =>
                /\ RatEq(ret, <<call.eles[FirstIndex(call.dists, i)], 1>>)
                /\ (i > 2 => call.dists[i-1] < call.dists[i])
                      /\ ((i = 1 /\ Len(call.dists) > 1) => call.dists[2] > 0)
                   => RatEq(ret, <<call.eles[i], 1>>)

\* the distance of the second and third points, queried: the second point's
\* elevation comes back, the third point's does not
C3_Witness ==
    /\ call.fn = "interpolate_elevation"
    /\ call.dists = <<0, 1, 1>>
    /\ call.eles = <<0, 10, 0>>
    /\ call.distance = 1
    /\ ret = <<10, 1>>

\* C4: compute_distances returns a series as long as the track, starting at
\* 0, non-decreasing, each element the previous one plus the non-negative
\* distance between the two track points.
C4_Distances ==
    call.fn = "compute_distances" =>
        /\ Len(ret) = Len(call.trkpts)
        /\ ret[1] = 0
        /\ \A i \in 2..Len(ret) :
              LET d == haversine(call.trkpts[i-1][1], call.trkpts[i-1][2],
                                 call.trkpts[i][1], call.trkpts[i][2])
              IN  /\ d >= 0
                  /\ ret[i] = ret[i-1] + d
                  /\ ret[i-1] <= ret[i]

C4_Witness ==
    /\ call.fn = "compute_distances"
    /\ Len(call.trkpts) = 3
    /\ call.trkpts[1][2] = 0 /\ call.trkpts[2][2] = 2 /\ call.trkpts[3][2] = 1
    /\ ret = <<0, 100, 150>>

\* C5: slope_to_color maps the percent grade p = slope * 100 to downhill
\* (blue) if p < 0, flat (darkgreen) if 0 <= p < 3, moderate (limegreen) if
\* 3 <= p < 6, steep (yellow) if 6 <= p < 10, very steep (orange) if
\* 10 <= p < 15, extreme (red) if p >= 15: six distinct categories, each
\* threshold in the upper one.
C5_SlopeCategories ==
    call.fn = "slope_to_color" =>
        LET n == call.slope[1]
            d == call.slope[2]
            Within(lo, hi) == lo * d <= 100 * n /\ 100 * n < hi * d
        IN  /\ ret = "blue"      <=> 100 * n < 0
            /\ ret = "darkgreen" <=> Within(0, 3)
            /\ ret = "limegreen" <=> Within(3, 6)
            /\ ret = "yellow"    <=> Within(6, 10)
            /\ ret = "orange"    <=> Within(10, 15)
            /\ ret = "red"       <=> 15 * d <= 100 * n
            /\ ret \in {"blue", "darkgreen", "limegreen", "yellow", "orange", "red"}

C5_Witness ==
    /\ call.fn = "slope_to_color"
    /\ call.slope = <<30, 1000>>
    /\ ret = "limegreen"

\* the track points at minimum distance from waypoint w of the call
Nearest(w) ==
    LET D(i) == haversine(call.wpts[w][1], call.wpts[w][2],
                          call.trkpts[i][1], call.trkpts[i][2])
    IN  {i \in 1..Len(call.trkpts) : \A j \in 1..Len(call.trkpts) : D(i) <= D(j)}

\* C6: waypoint_positions returns one (position, label) entry per waypoint,
\* in waypoint order: the position is dists[k] for the lowest index k among
\* the track points nearest to the waypoint, the label is the waypoint's.
C6_WaypointPositions ==
    call.fn = "waypoint_positions" =>
        /\ Len(ret) = Len(call.wpts)
        /\ \A w \in 1..Len(call.wpts) :
              /\ ret[w][1] = call.dists[Min(Nearest(w))]
              /\ ret[w][2] = call.wpts[w][3]

C6_Witness ==
    /\ call.fn = "waypoint_positions"
    /\ Len(call.wpts) = 2
    /\ call.wpts[1][3] # call.wpts[2][3]
    /\ ret[1][1] # ret[2][1]
    /\ \E i, j \in Nearest(1) : call.dists[i] # call.dists[j]

Coincide(w, k) ==
    /\ call.wpts[w][1] = call.trkpts[k][1]
    /\ call.wpts[w][2] = call.trkpts[k][2]

\* C7, as stated: a waypoint at the coordinates of track point k is projected
\* to dists[k], for any k, also on tracks that revisit the same coordinates.
C7_CoincidentAnyIndex ==
    call.fn = "waypoint_positions" =>
        \A w \in 1..Len(call.wpts), k \in 1..Len(call.trkpts) :
            Coincide(w, k) => ret[w][1] = call.dists[k]

\* C7, amended: a waypoint at the coordinates of track point k is projected
\* to dists[j], j the lowest index of a track point at those coordinates;
\* that is dists[k] when no earlier track point has the coordinates of k.
C7_CoincidentFirstIndex ==
    call.fn = "waypoint_positions" =>
        \A w \in 1..Len(call.wpts), k \in 1..Len(call.trkpts) :
            Coincide(w, k) =>
                LET j == Min({i \in 1..Len(call.trkpts) : Coincide(w, i)})
                IN  /\ ret[w][1] = call.dists[j]
                    /\ j = k => ret[w][1] = call.dists[k]

C7_Witness ==
    /\ call.fn = "waypoint_positions"
    /\ \E w \in 1..Len(call.wpts), k \in 1..Len(call.trkpts) :
          /\ Coincide(w, k)
          /\ \E j \in 1..(k - 1) : Coincide(w, j) /\ call.dists[j] # call.dists[k]
          /\ ret[w][1] # call.dists[k]

\* C8: with no track points main prints the message and returns without
\* calling plot_profile, so nothing of the profile is computed; with track
\* points it calls plot_profile exactly once, with the parsed track and
\* waypoints, and prints nothing.
C8_MainEmptyTrack ==
    /\ pc \in {"main", "parsed", "exit"}
    /\ Len(plotted) <= 1
    /\ (pc = "parsed" /\ trkpts = <<>>) => ENABLED MainNoTrackPoints
    /\ (pc # "main" /\ trkpts = <<>>) =>
          /\ plotted = <<>>
          /\ <<dists, eles, segments, fills, positions, marks>>
                = <<<<>>, <<>>, <<>>, <<>>, <<>>, <<>>>>
          /\ pc = "exit" => stdout = <<"No track points found.">>
    /\ (pc = "exit" /\ trkpts # <<>>) =>
          /\ plotted = <<<<trkpts, wpts>>>>
          /\ stdout = <<>>

C8_Witness ==
    /\ pc = "exit"
    /\ trkpts = <<>>
    /\ wpts # <<>>
    /\ stdout = <<"No track points found.">>
    /\ plotted = <<>>

\* C9: for a segment length of at least 1 the list returned by
\* segment_slopes is not empty, starts at 0, is contiguous, and every
\* segment has startDistance < endDistance.
C9_SegmentsContiguous ==
    call.fn = "segment_slopes" =>
        /\ Len(ret) >= 1
        /\ ret[1][1] = 0
        /\ \A k \in 2..Len(ret) : ret[k][1] = ret[k-1][2]
        /\ \A k \in 1..Len(ret) : ret[k][1] < ret[k][2]

C9_Witness ==
    /\ call.fn = "segment_slopes"
    /\ call.segment = <<3, 2>>
    /\ call.dists[Len(call.dists)] = 3
    /\ Len(ret) = 3
    /\ ret[3][2] = 3

\* C10: neither interpolate_elevation nor segment_slopes divides by zero:
\* both return a value for every distance series, query distance >= 0 and
\* segment length >= 1; a step of length zero yields the elevation at its
\* end, and a segment of length zero the slope 0.
C10_NoDivisionByZero ==
    /\ call.fn = "interpolate_elevation" =>
          /\ ret # ZeroDivisionError
          /\ ret[2] > 0
          /\ \A i \in 2..Len(call.dists) :
                (/\ call.distance <= call.dists[i]
                 /\ \A k \in 2..(i - 1) : call.dists[k] < call.distance
                 /\ call.dists[i] = call.dists[i-1])
                    => ret = <<call.eles[i], 1>>
    /\ call.fn = "segment_slopes" =>
          /\ ~Raised(ret)
          /\ \A k \in 1..Len(ret) :
                /\ ret[k][3][2] > 0
                /\ ret[k][1] = ret[k][2] => ret[k][3] = <<0, 1>>

C10_Witness ==
    /\ call.fn = "interpolate_elevation"
    /\ call.dists = <<0, 0, 1>>
    /\ call.eles = <<0, 10, 0>>
    /\ call.distance = 0
    /\ ret = <<10, 1>>
====
